---------------------------- MODULE Spec2Model ----------------------------
(***************************************************************************)
(* MemoryMap (src/MemoryMap.py): a container file holding a header that    *)
(* describes several numpy arrays (type and shape of each), followed by    *)
(* the arrays' raw data, reopened as numpy.memmap views.                   *)
(*                                                                         *)
(* The model follows one path of the filesystem: whether its directory and *)
(* the file exist, the bytes of the file, the position of a running        *)
(* `create` (one step per filesystem call or write), and the result of     *)
(* the last `open` together with the views it returned.  Bytes are the     *)
(* integers 0..255 and strings are sequences of ASCII codes.               *)
(*                                                                         *)
(* The path has one directory level, so os.mkdir cannot fail.  The bytes   *)
(* create writes stay in the buffer of outfile until the with-block is     *)
(* left (the headers here are far shorter than the buffer).  An open is    *)
(* one step, taken at any position of a running create.  numpy.memmap is   *)
(* modelled by what it does to the file: it maps offset + size * itemsize  *)
(* bytes, in mode r+ lengthening a shorter file with zero bytes and in     *)
(* mode r failing on a shorter file.                                       *)
(***************************************************************************)
EXTENDS Integers, Sequences, FiniteSets, TLC

VARIABLES
    isdir,     \* os.path.isdir(path): the directory part of fileName exists
    isfile,    \* os.path.isfile(fileName)
    disk,      \* the bytes of the file on disk (<<>> while it does not exist)
    pc,        \* position of the running create ("idle" when none runs)
    dtypes,    \* create's argument dtypes (of the last call that passed validation)
    shapes,    \* create's argument shapes (of the last call that passed validation)
    i,         \* create's loop index over the arrays (1-based)
    d,         \* create's loop index over the dimensions (1-based)
    outfile,   \* bytes written to outfile and still in its buffer
    exc,       \* exception raised inside create's with-block ("none" if none)
    created,   \* outcome of the last create call that passed validation
    rejected,  \* the last create call raised ValueError at validation
    replaced,  \* the running create removed a file that a create had completed
    written,   \* history: the bytes of the file as the last create left it
    opened,    \* the last open call: outcome, mode, whether a create was running
    views,     \* the memmap views the last open returned
    nwrites    \* element writes made through the views since the file was created

vars == <<isdir, isfile, disk, pc, dtypes, shapes, i, d, outfile, exc, created,
          rejected, replaced, written, opened, views, nwrites>>

---------------------------------------------------------------------------
(* Bounds and input sets *)

MaxArrays == 2
MaxWrites == 1

\* The element types given to create, by their numpy names.
Dtypes == {"float32", "S12"}

\* The shapes given to create: the empty shape, a zero-length dimension, two
\* dimensions, and a shape holding a negative length, which pack refuses.
ShapeInputs == {<<>>, <<0>>, <<2, 3>>, <<2, -1>>}

\* The modes given to open.
Modes == {"readwrite", "readonly"}

---------------------------------------------------------------------------
(* Constants and library functions *)

PACK_LENGTH == 8

\* The pad character of str.ljust: the ASCII space.
SPACE == 32

Min(a, b) == IF a < b THEN a ELSE b

\* numpy.dtype(x).str as ASCII codes: "<f4" and "|S12".
DtypeStr(t) ==
    CASE t = "float32" -> <<60, 102, 52>>
      [] t = "S12"     -> <<124, 83, 49, 50>>

\* numpy.dtype(x).itemsize, which numpy.memmap uses for the size of an element.
ItemSize(t) ==
    CASE t = "float32" -> 4
      [] t = "S12"     -> 12
      [] OTHER         -> 0

\* numpy.dtype(tag) for a tag read from a header: the type whose str is the tag,
\* "TypeError" when numpy knows no such type.
DtypeOfTag(tag) ==
    IF \E t \in Dtypes : DtypeStr(t) = tag
    THEN CHOOSE t \in Dtypes : DtypeStr(t) = tag
    ELSE "TypeError"

\* str.ljust(width): pads on the right with spaces up to width, never truncates.
RECURSIVE Pad(_)
Pad(n) == IF n <= 0 THEN <<>> ELSE <<SPACE>> \o Pad(n - 1)

\* (as str.rjust would: padded on the left)
LjustLeft(s, width) == Pad(width - Len(s)) \o s

Ljust(s, width) == s \o Pad(width - Len(s))

\* struct.pack('Q', x): 8 bytes, little-endian; struct.error for a negative x.
PackOK(x) == x >= 0

RECURSIVE LittleEndian(_, _)
LittleEndian(x, n) ==
    IF n = 0 THEN <<>> ELSE <<x % 256>> \o LittleEndian(x \div 256, n - 1)

\* (as format 'I' would: 4 bytes)
PackShort(x) == LittleEndian(x, 4)

Pack(x) == LittleEndian(x, PACK_LENGTH)

\* struct.unpack('Q', b): needs exactly 8 bytes, struct.error otherwise.
\* (as an unpack that took a short buffer would)
UnpackShort(b) == TRUE

UnpackOK(b) == Len(b) = PACK_LENGTH

RECURSIVE Unpack(_)
Unpack(b) == IF b = <<>> THEN 0 ELSE Head(b) + 256 * Unpack(Tail(b))

\* bytes.strip(): drops leading and trailing ASCII whitespace.
Whitespace == {9, 10, 11, 12, 13, SPACE}

RECURSIVE LStrip(_)
LStrip(s) ==
    IF s # <<>> /\ Head(s) \in Whitespace THEN LStrip(Tail(s)) ELSE s

RECURSIVE RStrip(_)
RStrip(s) ==
    IF s # <<>> /\ s[Len(s)] \in Whitespace
    THEN RStrip(SubSeq(s, 1, Len(s) - 1)) ELSE s

\* (as a read of the tag without strip would)
StripNone(s) == s

Strip(s) == RStrip(LStrip(s))

\* int(b): the decimal value of a string of ASCII digits.
RECURSIVE ParseInt(_)
ParseInt(s) ==
    IF s = <<>> THEN 0 ELSE 10 * ParseInt(SubSeq(s, 1, Len(s) - 1)) + (s[Len(s)] - 48)

\* numpy.product(shape): the product of the lengths, 1 for the empty shape.
RECURSIVE NumpyProduct(_)
NumpyProduct(shape) ==
    IF shape = <<>> THEN 1 ELSE Head(shape) * NumpyProduct(Tail(shape))

---------------------------------------------------------------------------
(* Init *)

NoCall == [status |-> "none", mode |-> "none", during |-> FALSE]

Init ==
    /\ isdir \in BOOLEAN
    /\ isfile = FALSE
    /\ disk = <<>>
    /\ pc = "idle"
    /\ dtypes = <<>>
    /\ shapes = <<>>
    /\ i = 0
    /\ d = 0
    /\ outfile = <<>>
    /\ exc = "none"
    /\ created = "none"
    /\ rejected = FALSE
    /\ replaced = FALSE
    /\ written = <<>>
    /\ opened = NoCall
    /\ views = <<>>
    /\ nwrites = 0

---------------------------------------------------------------------------
(* open's reading of the header *)

\* infile.read(PACK_LENGTH) at position pos: up to 8 bytes, fewer at the end
\* of the file.
Read(f, pos) == SubSeq(f, pos + 1, Min(pos + PACK_LENGTH, Len(f)))

\* The loop over the dimensions of one array: s lengths read from pos on.
RECURSIVE ReadDims(_, _, _, _)
ReadDims(f, pos, s, shape) ==
    IF s = 0 THEN [err |-> "none", shape |-> shape, tell |-> pos]
    ELSE LET b == Read(f, pos) IN
         IF ~UnpackOK(b)
         THEN [err |-> "struct.error", shape |-> shape, tell |-> pos + Len(b)]
         ELSE ReadDims(f, pos + Len(b), s - 1, Append(shape, Unpack(b)))

\* The loop over the arrays: n descriptors read from pos on.  The type tag is
\* whatever read returns, stripped; the counts and lengths go through unpack.
RECURSIVE ReadArrays(_, _, _, _, _)
ReadArrays(f, pos, n, dts, shs) ==
    IF n = 0
    THEN [err |-> "none", dtypes |-> dts, shapes |-> shs, tell |-> pos]
    ELSE LET tag  == Read(f, pos)
             pos1 == pos + Len(tag)
             b    == Read(f, pos1)
             pos2 == pos1 + Len(b)
         IN  IF ~UnpackOK(b)
             THEN [err |-> "struct.error", dtypes |-> dts, shapes |-> shs,
                   tell |-> pos2]
             ELSE LET r == ReadDims(f, pos2, Unpack(b), <<>>) IN
                  IF r.err # "none"
                  THEN [err |-> r.err, dtypes |-> dts, shapes |-> shs,
                        tell |-> r.tell]
                  ELSE ReadArrays(f, r.tell, n - 1, Append(dts, Strip(tag)),
                                  Append(shs, r.shape))

\* The header as open reads it from the bytes f of the file.
ReadHeader(f) ==
    LET b == Read(f, 0) IN
    IF ~UnpackOK(b)
    THEN [err |-> "struct.error", dtypes |-> <<>>, shapes |-> <<>>,
          tell |-> Len(b)]
    ELSE ReadArrays(f, Len(b), Unpack(b), <<>>, <<>>)

---------------------------------------------------------------------------
(* open's offsets and views *)

\* The number of elements open reserves for an array: 0 for the empty shape,
\* numpy's product otherwise.
\* (as numpy.product alone would: 1 for the empty shape)
ProductNeutral(shape) == NumpyProduct(shape)

Product(shape) == IF shape # <<>> THEN NumpyProduct(shape) ELSE 0

\* int(dtypes[i][2:]): the digits of the type tag after its first two characters.
TagSize(tag) == ParseInt(SubSeq(tag, 3, Len(tag)))

\* The list offsets grows by one entry per array.
RECURSIVE AppendOffsets(_, _, _, _)
AppendOffsets(offsets, dts, shs, k) ==
    IF k > Len(dts) THEN offsets
    ELSE AppendOffsets(
             Append(offsets, offsets[Len(offsets)] + TagSize(dts[k]) * Product(shs[k])),
             dts, shs, k + 1)

\* (as offsets counted from the start of the file would)
OffsetsFromZero(tell, dts, shs) == AppendOffsets(<<0>>, dts, shs, 1)

\* offsets: infile.tell() after the header, then one running sum per array.
Offsets(tell, dts, shs) == AppendOffsets(<<tell>>, dts, shs, 1)

\* numpy.memmap's mode for the mode given to open.
NumpyMode(mode) == IF mode = "readwrite" THEN "r+" ELSE "r"

Zeros(n) == [k \in 1..n |-> 0]

\* The bytes of f from position pos on replaced by b.
WriteAt(f, pos, b) ==
    [k \in 1..(IF Len(f) > pos + Len(b) THEN Len(f) ELSE pos + Len(b)) |->
        IF k > pos /\ k <= pos + Len(b) THEN b[k - pos]
        ELSE IF k <= Len(f) THEN f[k] ELSE 0]

\* numpy.memmap(fileName, dtype, shape, mode, offset), once per array and in
\* order.  Each call needs offset + size * itemsize bytes of file, size being the
\* product of the shape (1 for the empty shape).  Mode r+ extends a shorter file
\* with zero bytes; mode r fails on a shorter file, mmap refusing a length
\* greater than the file size.
RECURSIVE MapViews(_, _, _, _, _, _, _)
MapViews(f, dts, shs, offsets, mode, k, vs) ==
    IF k > Len(dts) THEN [err |-> "none", disk |-> f, views |-> vs]
    ELSE LET t     == DtypeOfTag(dts[k])
             bytes == offsets[k] + NumpyProduct(shs[k]) * ItemSize(t)
             v     == [dtype |-> t, shape |-> shs[k], mode |-> NumpyMode(mode),
                       offset |-> offsets[k]]
         IN  IF t = "TypeError"
             THEN [err |-> "TypeError", disk |-> f, views |-> <<>>]
             ELSE IF Len(f) >= bytes
             THEN MapViews(f, dts, shs, offsets, mode, k + 1, Append(vs, v))
             ELSE IF NumpyMode(mode) = "r+"
             THEN MapViews(f \o Zeros(bytes - Len(f)), dts, shs, offsets, mode,
                           k + 1, Append(vs, v))
             ELSE [err |-> "mmap.ValueError", disk |-> f, views |-> <<>>]

\* What open(fileName, mode) does on a path: the outcome, the views returned
\* and the bytes of the file afterwards.
\* (as an open without the isfile check would, taking no file for no arrays)
OpenMissingAsEmpty(exists, f, mode) ==
    IF exists /\ ReadHeader(f).err # "none"
    THEN [status |-> ReadHeader(f).err, disk |-> f, views |-> <<>>]
    ELSE [status |-> "ok", disk |-> f, views |-> <<>>]

OpenResult(exists, f, mode) ==
    IF ~exists THEN [status |-> "ValueError", disk |-> f, views |-> <<>>]
    ELSE LET h == ReadHeader(f) IN
         IF h.err # "none" THEN [status |-> h.err, disk |-> f, views |-> <<>>]
         ELSE LET m == MapViews(f, h.dtypes, h.shapes,
                                Offsets(h.tell, h.dtypes, h.shapes), mode, 1, <<>>)
              IN  [status |-> IF m.err = "none" THEN "ok" ELSE m.err,
                   disk |-> m.disk, views |-> m.views]

---------------------------------------------------------------------------
(* Actions *)

createVars ==
    <<pc, dtypes, shapes, i, d, outfile, exc, created, rejected, replaced, written>>

\* create(fileName, dtypes, shapes) up to the removal of an existing file: the
\* validation of the two lengths, then os.remove when the file exists.  The
\* views of a removed file stay mapped to the removed file, not to the path:
\* they are dropped from the model with the result of the open that made them.
\* (as a create that removed the file before validating would)
CreateCallRemoveFirst(T, S) ==
    /\ pc = "idle"
    /\ IF Len(T) # Len(S)
       THEN /\ rejected' = TRUE
            /\ isfile' = FALSE
            /\ disk' = <<>>
            /\ opened' = NoCall
            /\ views' = <<>>
            /\ UNCHANGED <<isdir, pc, dtypes, shapes, i, d, outfile, exc, created,
                           replaced, written, nwrites>>
       ELSE /\ rejected' = FALSE
            /\ isfile' = FALSE
            /\ disk' = <<>>
            /\ replaced' = (isfile /\ created = "ok")
            /\ pc' = "mkdir"
            /\ dtypes' = T
            /\ shapes' = S
            /\ created' = "running"
            /\ written' = <<>>
            /\ opened' = NoCall
            /\ views' = <<>>
            /\ nwrites' = 0
            /\ UNCHANGED <<isdir, i, d, outfile, exc>>

\* (as a create without the removal would)
CreateCallKeepFile(T, S) ==
    /\ pc = "idle"
    /\ IF Len(T) # Len(S)
       THEN /\ rejected' = TRUE
            /\ UNCHANGED <<isdir, isfile, disk, pc, dtypes, shapes, i, d, outfile,
                           exc, created, replaced, written, opened, views, nwrites>>
       ELSE /\ rejected' = FALSE
            /\ replaced' = (isfile /\ created = "ok")
            /\ pc' = "mkdir"
            /\ dtypes' = T
            /\ shapes' = S
            /\ created' = "running"
            /\ written' = <<>>
            /\ opened' = NoCall
            /\ views' = <<>>
            /\ nwrites' = 0
            /\ UNCHANGED <<isdir, isfile, disk, i, d, outfile, exc>>

CreateCall(T, S) ==
    /\ pc = "idle"
    /\ IF Len(T) # Len(S)
       THEN /\ rejected' = TRUE
            /\ UNCHANGED <<isdir, isfile, disk, pc, dtypes, shapes, i, d, outfile,
                           exc, created, replaced, written, opened, views, nwrites>>
       ELSE /\ rejected' = FALSE
            /\ isfile' = FALSE
            /\ disk' = <<>>
            /\ replaced' = (isfile /\ created = "ok")
            /\ pc' = "mkdir"
            /\ dtypes' = T
            /\ shapes' = S
            /\ created' = "running"
            /\ written' = <<>>
            /\ opened' = NoCall
            /\ views' = <<>>
            /\ nwrites' = 0
            /\ UNCHANGED <<isdir, i, d, outfile, exc>>

\* The directory of fileName is made when it does not exist.
Mkdir ==
    /\ pc = "mkdir"
    /\ isdir' = TRUE
    /\ pc' = "fopen"
    /\ UNCHANGED <<isfile, disk, dtypes, shapes, i, d, outfile, exc, created,
                   rejected, replaced, written, opened, views, nwrites>>

\* open(fileName, 'wb'): an empty file now exists at the path.
OpenOutfile ==
    /\ pc = "fopen"
    /\ isfile' = TRUE
    /\ disk' = <<>>
    /\ outfile' = <<>>
    /\ pc' = "count"
    /\ UNCHANGED <<isdir, dtypes, shapes, i, d, exc, created, rejected, replaced,
                   written, opened, views, nwrites>>

\* The position after the descriptor of array k: the next array, or the end of
\* the with-block.
AfterArray(k) == IF k < Len(dtypes) THEN "dtype" ELSE "close"

WriteCount ==
    /\ pc = "count"
    /\ outfile' = outfile \o Pack(Len(dtypes))
    /\ i' = 1
    /\ pc' = AfterArray(0)
    /\ UNCHANGED <<isdir, isfile, disk, dtypes, shapes, d, exc, created, rejected,
                   replaced, written, opened, views, nwrites>>

WriteDtype ==
    /\ pc = "dtype"
    /\ outfile' = outfile \o Ljust(DtypeStr(dtypes[i]), PACK_LENGTH)
    /\ pc' = "ndims"
    /\ UNCHANGED <<isdir, isfile, disk, dtypes, shapes, i, d, exc, created,
                   rejected, replaced, written, opened, views, nwrites>>

WriteNdims ==
    /\ pc = "ndims"
    /\ outfile' = outfile \o Pack(Len(shapes[i]))
    /\ IF Len(shapes[i]) >= 1
       THEN d' = 1 /\ pc' = "dim" /\ i' = i
       ELSE d' = 0 /\ pc' = AfterArray(i) /\ i' = i + 1
    /\ UNCHANGED <<isdir, isfile, disk, dtypes, shapes, exc, created, rejected,
                   replaced, written, opened, views, nwrites>>

WriteDim ==
    /\ pc = "dim"
    /\ IF PackOK(shapes[i][d])
       THEN /\ outfile' = outfile \o Pack(shapes[i][d])
            /\ exc' = exc
            /\ IF d < Len(shapes[i])
               THEN d' = d + 1 /\ pc' = "dim" /\ i' = i
               ELSE d' = 0 /\ pc' = AfterArray(i) /\ i' = i + 1
       ELSE /\ exc' = "struct.error"
            /\ pc' = "close"
            /\ UNCHANGED <<outfile, i, d>>
    /\ UNCHANGED <<isdir, isfile, disk, dtypes, shapes, created, rejected, replaced,
                   written, opened, views, nwrites>>

\* Leaving the with-block, normally or by an exception: the buffered bytes reach
\* the file and create returns or raises.
CloseOutfile ==
    /\ pc = "close"
    /\ disk' = WriteAt(disk, 0, outfile)
    /\ written' = WriteAt(disk, 0, outfile)
    /\ outfile' = <<>>
    /\ created' = IF exc = "none" THEN "ok" ELSE exc
    /\ exc' = "none"
    /\ i' = 0
    /\ d' = 0
    /\ replaced' = FALSE
    /\ pc' = "idle"
    /\ UNCHANGED <<isdir, isfile, dtypes, shapes, rejected, opened, views, nwrites>>

\* open(fileName, mode), by this or another process.
Open(mode) ==
    LET r == OpenResult(isfile, disk, mode) IN
    /\ opened' = [status |-> r.status, mode |-> mode, during |-> pc # "idle"]
    /\ views' = r.views
    /\ disk' = r.disk
    /\ UNCHANGED <<isdir, isfile, nwrites>>
    /\ UNCHANGED createVars

\* The position in the file of element e of view v.
ElementAt(v, e) == v.offset + e * ItemSize(v.dtype)

\* The number of elements of view v: numpy's size of its shape.
Size(v) == NumpyProduct(v.shape)

\* An element of a view opened r+ is assigned: its bytes in the file change.
ViewWrite(k, e, b) ==
    /\ nwrites < MaxWrites
    /\ views[k].mode = "r+"
    /\ disk' = WriteAt(disk, ElementAt(views[k], e),
                       [x \in 1..ItemSize(views[k].dtype) |-> b])
    /\ nwrites' = nwrites + 1
    /\ UNCHANGED <<isdir, isfile, opened, views>>
    /\ UNCHANGED createVars

TypeLists == UNION {[1..n -> Dtypes] : n \in 0..MaxArrays}

ShapeLists == UNION {[1..n -> ShapeInputs] : n \in 0..MaxArrays}

\* A list of m types and a list of n shapes.
TypesOf(m) == [k \in 1..m |-> "float32"]

ShapesOf(n) == [k \in 1..n |-> <<2, 3>>]

\* The calls of create: every pair of lists of one length, and for every two
\* different lengths one pair of lists (create reads nothing but the lengths
\* of such a pair).
CreateInputs ==
    {c \in TypeLists \X ShapeLists : Len(c[1]) = Len(c[2])}
        \cup {<<TypesOf(p[1]), ShapesOf(p[2])>> :
                 p \in {q \in (0..MaxArrays) \X (0..MaxArrays) : q[1] # q[2]}}

\* The elements written through a view: its first and its last.
Ends(v) == {e \in {0, Size(v) - 1} : e >= 0}

Next ==
    \/ \E c \in CreateInputs : CreateCall(c[1], c[2])
    \/ Mkdir
    \/ OpenOutfile
    \/ WriteCount
    \/ WriteDtype
    \/ WriteNdims
    \/ WriteDim
    \/ CloseOutfile
    \/ \E mode \in Modes : Open(mode)
    \/ \E k \in 1..Len(views) : \E e \in Ends(views[k]) : ViewWrite(k, e, 255)

Spec == Init /\ [][Next]_vars

---------------------------------------------------------------------------
(* A container whose file was cut short *)

\* The bytes create writes for the arrays k.. of (T, S), field by field.
RECURSIVE DimBytes(_, _)
DimBytes(shape, k) ==
    IF k > Len(shape) THEN <<>> ELSE Pack(shape[k]) \o DimBytes(shape, k + 1)

RECURSIVE ArrayBytes(_, _, _)
ArrayBytes(T, S, k) ==
    IF k > Len(T) THEN <<>>
    ELSE Ljust(DtypeStr(T[k]), PACK_LENGTH) \o Pack(Len(S[k])) \o DimBytes(S[k], 1)
             \o ArrayBytes(T, S, k + 1)

\* The header create writes for (T, S).
HeaderBytes(T, S) == Pack(Len(T)) \o ArrayBytes(T, S, 1)

\* The calls create completes: lists of one length, pack raising on no length.
Accepted ==
    {c \in CreateInputs :
        /\ Len(c[1]) = Len(c[2])
        /\ \A k \in 1..Len(c[2]) : \A j \in 1..Len(c[2][k]) : PackOK(c[2][k][j])}

\* A file that create completed and of which only the first n bytes are left,
\* n less than the length of the header.
InitTrunc ==
    \E c \in Accepted :
        \E n \in 0..(Len(HeaderBytes(c[1], c[2])) - 1) :
            /\ isdir = TRUE
            /\ isfile = TRUE
            /\ disk = SubSeq(HeaderBytes(c[1], c[2]), 1, n)
            /\ pc = "idle"
            /\ dtypes = c[1]
            /\ shapes = c[2]
            /\ i = 0
            /\ d = 0
            /\ outfile = <<>>
            /\ exc = "none"
            /\ created = "ok"
            /\ rejected = FALSE
            /\ replaced = FALSE
            /\ written = HeaderBytes(c[1], c[2])
            /\ opened = NoCall
            /\ views = <<>>
            /\ nwrites = 0

NextTrunc == \E mode \in Modes : Open(mode)

SpecTrunc == InitTrunc /\ [][NextTrunc]_vars

---------------------------------------------------------------------------
(* The format as the specification states it *)

\* create(dtypes, shapes) has returned and no create runs: the file at the
\* path is the one that call produced, opened and written since.
Completed == pc = "idle" /\ created = "ok"

\* The last open ran on the completed file and returned views.
Reopened == Completed /\ opened.status = "ok"

\* An 8-byte little-endian unsigned integer (of a value below 2^31).
U64(x) ==
    <<x % 256, (x \div 256) % 256, (x \div 65536) % 256, (x \div 16777216) % 256,
      0, 0, 0, 0>>

\* A type tag in exactly 8 bytes, space-padded on the right.
Tag8(t) ==
    [k \in 1..8 |-> IF k <= Len(DtypeStr(t)) THEN DtypeStr(t)[k] ELSE 32]

RECURSIVE LayoutDims(_, _)
LayoutDims(shape, k) ==
    IF k > Len(shape) THEN <<>> ELSE U64(shape[k]) \o LayoutDims(shape, k + 1)

RECURSIVE LayoutArrays(_, _, _)
LayoutArrays(T, S, k) ==
    IF k > Len(T) THEN <<>>
    ELSE Tag8(T[k]) \o U64(Len(S[k])) \o LayoutDims(S[k], 1)
             \o LayoutArrays(T, S, k + 1)

\* The count, then per array the tag, the dimension count and the lengths.
Layout(T, S) == U64(Len(T)) \o LayoutArrays(T, S, 1)

\* 8 + the sum over the arrays of 16 + 8 * dimension count.
RECURSIVE HeaderSize(_, _)
HeaderSize(S, k) ==
    IF k > Len(S) THEN 8 ELSE 16 + 8 * Len(S[k]) + HeaderSize(S, k + 1)

\* product(shape): 0 for the empty shape, the product of the lengths otherwise.
RECURSIVE Times(_, _)
Times(shape, k) ==
    IF k > Len(shape) THEN 1 ELSE shape[k] * Times(shape, k + 1)

RegionElements(shape) == IF Len(shape) = 0 THEN 0 ELSE Times(shape, 1)

\* itemSize(T[k]) * product(S[k]).
RegionSize(T, S, k) == ItemSize(T[k]) * RegionElements(S[k])

\* offset[k] for k = 1..n+1 (offset[1] is the spec's offset[0]).
RECURSIVE SpecOffset(_, _, _)
SpecOffset(T, S, k) ==
    IF k = 1 THEN HeaderSize(S, 1)
    ELSE SpecOffset(T, S, k - 1) + RegionSize(T, S, k - 1)

\* The bytes of the file that view v reads and writes.
Range(v) == {x \in 0..(Len(disk) + Size(v) * ItemSize(v.dtype)) :
                /\ x >= v.offset
                /\ x < v.offset + Size(v) * ItemSize(v.dtype)}

---------------------------------------------------------------------------
(* Claims *)

\* C1: after create(path, T, S) has completed, open(path) in the default mode
\* returns exactly len(T) views, and the k-th view has type T[k] and shape S[k].
C1_RoundTrip ==
    (Completed /\ opened.status # "none" /\ ~opened.during
        /\ opened.mode = "readwrite")
        => /\ opened.status = "ok"
           /\ Len(views) = Len(dtypes)
           /\ \A k \in 1..Len(views) :
                  views[k].dtype = dtypes[k] /\ views[k].shape = shapes[k]

C1_Witness ==
    /\ Reopened
    /\ opened.mode = "readwrite"
    /\ Len(views) = 2
    /\ views[1].shape = <<>>
    /\ views[2].shape = <<2, 3>>
    /\ views[1].dtype # views[2].dtype

\* C2: the file as create leaves it is, byte for byte, the count in 8 bytes
\* little-endian, then per array the tag in exactly 8 bytes space-padded, the
\* dimension count and each length in 8 bytes little-endian, and nothing else.
C2_HeaderLayout == Completed => written = Layout(dtypes, shapes)

C2_Witness ==
    /\ Completed
    /\ Len(dtypes) = 2
    /\ shapes[1] = <<2, 3>>
    /\ dtypes[2] = "S12"
    /\ disk = written

\* C3: the offsets of the views open returns are offset[0] = 8 + sum of
\* (16 + 8 * len(S[i])) and offset[i+1] = offset[i] + itemSize(T[i]) *
\* product(S[i]), the product of the empty shape being 0.
C3_Offsets ==
    Reopened => \A k \in 1..Len(views) : views[k].offset = SpecOffset(dtypes, shapes, k)

C3_Witness ==
    /\ Reopened
    /\ Len(views) = 2
    /\ shapes[1] = <<2, 3>>
    /\ dtypes[1] = "S12"
    /\ views[2].offset = 128

\* C4: create with len(T) # len(S) raises the validation error and does nothing
\* to the filesystem: the file and the directory are as they were.
C4_ValidationFailure ==
    [][\A m \in 0..MaxArrays, n \in 0..MaxArrays :
           (m # n /\ pc = "idle" /\ CreateCall(TypesOf(m), ShapesOf(n)))
               => /\ rejected'
                  /\ isfile' = isfile
                  /\ disk' = disk
                  /\ isdir' = isdir
                  /\ pc' = "idle"]_vars

C4_Witness == rejected /\ isfile /\ Completed /\ disk # <<>>

\* C5: open on a path without a file raises the not-found ValueError in every
\* mode, returns no views and leaves the path without a file.
C5_MissingFile ==
    [][\A mode \in Modes :
           (~isfile /\ Open(mode))
               => /\ opened'.status = "ValueError"
                  /\ views' = <<>>
                  /\ ~isfile'
                  /\ disk' = disk
                  /\ isdir' = isdir]_vars

C5_Witness == ~isfile /\ opened.status = "ValueError" /\ opened.mode = "readonly"

\* C6: open on a file that is a proper prefix of a valid header raises the
\* error of a short read (struct.error) and returns no views.
C6_TruncatedHeader ==
    (isfile /\ Len(disk) < Len(written) /\ disk = SubSeq(written, 1, Len(disk))
        /\ opened.status # "none")
        => opened.status = "struct.error" /\ views = <<>>

\* The file ends inside the type tag of the second array.
C6_Witness ==
    /\ isfile
    /\ Len(dtypes) = 2
    /\ Len(disk) = HeaderSize(<<shapes[1]>>, 1) + 3
    /\ disk = SubSeq(written, 1, Len(disk))
    /\ opened.status = "struct.error"

\* Once create has completed, the header bytes stay the bytes create wrote
\* under every open and every write through a view, and every view starts at
\* or after the end of the header.
C7_HeaderKept ==
    Completed
        => /\ Len(disk) >= Len(written)
           /\ SubSeq(disk, 1, Len(written)) = written
           /\ \A k \in 1..Len(views) : views[k].offset >= Len(written)

\* An open changes no byte the file has (mode r+ may add zero bytes at its end).
C7_OpenFrame ==
    \A mode \in Modes :
        (pc' = pc /\ nwrites' = nwrites /\ opened'.mode = mode /\ Open(mode))
            => Len(disk') >= Len(disk) /\ SubSeq(disk', 1, Len(disk)) = disk

RECURSIVE RegionSum(_, _, _)
RegionSum(T, S, k) ==
    IF k > Len(T) THEN 0 ELSE RegionSize(T, S, k) + RegionSum(T, S, k + 1)

\* C8 as stated: the file create produces has the size of the header plus the
\* sum of itemSize(T[i]) * product(S[i]), and the offsets are non-decreasing.

C8_SizeWithRegions ==
    Completed
        => /\ Len(written) = HeaderSize(shapes, 1) + RegionSum(dtypes, shapes, 1)
           /\ \A k \in 1..(Len(views) - 1) : views[k].offset <= views[k + 1].offset

\* C8 amended: the offsets are non-decreasing and the file create produces has
\* the size of the header alone; once an open has returned views the file has
\* at least the size of the header plus the sum of the region sizes.
C8_SizeHeaderOnly ==
    Completed
        => /\ Len(written) = HeaderSize(shapes, 1)
           /\ \A k \in 1..(Len(views) - 1) : views[k].offset <= views[k + 1].offset
           /\ views # <<>> =>
                  Len(disk) >= HeaderSize(shapes, 1) + RegionSum(dtypes, shapes, 1)

C8_Witness ==
    /\ Reopened
    /\ Len(views) = 2
    /\ RegionSum(dtypes, shapes, 1) > 0
    /\ Len(written) < Len(disk)
    /\ views[1].offset < views[2].offset

\* C9: create is not atomic.  Between the removal and the opening of the new
\* file an open finds no file; from then until the file is closed an open
\* finds an incomplete header; an open is possible at every step; and a create
\* that failed after the removal has left a file without a complete header.
C9_NotAtomic ==
    /\ pc \in {"mkdir", "fopen"}
           => /\ ~isfile
              /\ \A mode \in Modes :
                     OpenResult(isfile, disk, mode).status = "ValueError"
    /\ pc \in {"count", "dtype", "ndims", "dim", "close"}
           => /\ isfile
              /\ \A mode \in Modes :
                     OpenResult(isfile, disk, mode).status = "struct.error"
    /\ pc # "idle" => ENABLED (\E mode \in Modes : Open(mode))
    /\ (pc = "idle" /\ created = "struct.error")
           => isfile /\ ReadHeader(disk).err = "struct.error"

\* The running create has removed a completed container, an open has found an
\* incomplete header meanwhile, and the create is about to fail.
C9_Witness ==
    /\ replaced
    /\ pc = "close"
    /\ exc = "struct.error"
    /\ opened.during
    /\ opened.status = "struct.error"

\* C10: no two views returned by one open address the same byte of the file.
C10_ViewsDisjoint ==
    \A j \in 1..Len(views) : \A k \in 1..Len(views) :
        j # k => Range(views[j]) \cap Range(views[k]) = {}

=============================================================================
